---------------------------- MODULE Spec2Model ----------------------------
(***************************************************************************)
(* Model of the syllable resolution engine of dutch-readability             *)
(* (syllable_counter.py): the text normaliser clean_text, the recursive     *)
(* compound-word resolver SyllableCounter.count_syllables_word /            *)
(* composite_word_syllables, and the aggregator count_syllables_text.       *)
(*                                                                          *)
(* A string is a sequence of characters, a character is a one-element       *)
(* name.  The recursion of the resolver is an explicit call stack: one      *)
(* frame per active count_syllables_word invocation.                        *)
(***************************************************************************)
EXTENDS Integers, Sequences, FiniteSets, TLC

VARIABLES
    dictionary,      \* SyllableCounter.__dictionary: word -> syllable count
    estimator,       \* which behaviour the external textstat.syllable_count has
    pc,              \* position of the running call
    caller,          \* who invoked the resolver: "word" (direct call) or "text"
    stack,           \* active count_syllables_word frames, innermost last
    original,        \* the `original` argument, passed through unchanged
    test_accuracy,   \* the `test_accuracy` argument, passed through unchanged
    textstat_count,  \* self.textstat_count
    unknown_count,   \* self.unknown_count
    result,          \* value returned by the call that last returned
    trail,           \* log of the count_syllables_word invocations of the
                     \* current resolution: candidate and branch taken
    estimated,       \* log of the words handed to textstat.syllable_count
    text,            \* argument of count_syllables_text / clean_text
    cleaned,         \* clean_text(text)
    recleaned,       \* clean_text(clean_text(text))
    tokens,          \* text.split() of the cleaned text
    idx,             \* position of the for loop over tokens
    syllable_count,  \* local accumulator of count_syllables_text
    lines,           \* f.readlines() of the CELEX file, dictionary_init
    threads,         \* the local state of each thread that uses the resolver
    history,         \* log of the calls a session has completed
    dataset,         \* the words handed to accuracy_compound_unique_words
    read_est,        \* the fields of a ReadabilityEstimation object
    score,           \* the formula last applied and the score it returned
    grade            \* the grades the score was mapped to

vars == <<dictionary, estimator, pc, caller, stack, original, test_accuracy,
          textstat_count, unknown_count, result, trail, estimated,
          text, cleaned, recleaned, tokens, idx, syllable_count,
          lines, threads, history, dataset, read_est, score, grade>>

(***************************************************************************)
(* Bounds of the model.                                                     *)
(***************************************************************************)
MaxLen == 5          \* longest generated word
MaxTextLen == 3      \* longest generated text of count_syllables_text
MaxNormLen == 4      \* longest generated text of clean_text
MaxThreadCalls == 1  \* calls each thread makes on the shared resolver
MaxCalls == 2        \* calls of one session on one resolver
MaxLines == 2        \* lines of the generated CELEX files

(***************************************************************************)
(* Generic helpers on sequences.                                            *)
(***************************************************************************)
SeqsUpTo(S, n) == UNION {[1..k -> S] : k \in 0..n}

Last(w) == w[Len(w)]

\* Python slice w[a:b] for 0 <= a, b (0-based, end exclusive, clipped).
Slice(w, a, b) ==
    LET hi == IF b > Len(w) THEN Len(w) ELSE b
    IN  IF a >= hi THEN <<>> ELSE SubSeq(w, a + 1, hi)

\* str.endswith
endswith(w, suf) ==
    /\ Len(suf) <= Len(w)
    /\ Slice(w, Len(w) - Len(suf), Len(w)) = suf


(***************************************************************************)
(* Inputs: the words submitted to the resolver and the lexicons it is       *)
(* built with.  Generated words are all strings over Alphabet up to MaxLen; *)
(* the concrete words and lexicons are the examples the documentation of    *)
(* the engine uses.                                                         *)
(***************************************************************************)
Alphabet == {"a", "e", "s"}

boeken == <<"b","o","e","k","e","n">>
kast == <<"k","a","s","t">>
school == <<"s","c","h","o","o","l">>
huis == <<"h","u","i","s">>
deur == <<"d","e","u","r">>
boekenkast == boeken \o kast
schoolboeken == school \o boeken
huisdeur == huis \o deur
skast == <<"s">> \o kast
xyzzyplugh == <<"x","y","z","z","y","p","l","u","g","h">>

stad == <<"s","t","a","d">>
huisstad == huis \o stad
aseeas == <<"a","s","e","e","a","s">>
asasaa == <<"a","s","a","s","a","a">>

ExampleWords == {boekenkast, schoolboeken, huisdeur, skast, xyzzyplugh,
                 huis \o skast, huis \o <<"s","s">>, huisstad, aseeas,
                 asasaa}

Words == SeqsUpTo(Alphabet, MaxLen) \cup ExampleWords

\* Originals that differ from the submitted word.
OtherOriginals == {<<"s","e","a">>}

\* Entries a generated lexicon is drawn from.
MasterLexicon ==
    (<<"e","e">> :> 1) @@ (<<"e","e","s">> :> 2) @@ (<<"s","e","a">> :> 3)
    @@ (<<"a","s">> :> 1) @@ (<<"a","s","e">> :> 2)

Restrict(f, S) == [w \in S |-> f[w]]

ExampleLexicons ==
    { (boeken :> 2) @@ (kast :> 1),
      (school :> 1) @@ (boeken :> 2),
      (huis :> 1) @@ (deur :> 1),
      (boeken :> 2) @@ (kast :> 1) @@ (boekenkast :> 4),
      (<<"e">> :> 1) @@ (<<"e","s">> :> 1),
      (<<"a","s">> :> 1) @@ (<<"a","s","e">> :> 2)
        @@ (<<"e","s">> :> 2) @@ (<<"e","e","s">> :> 2) }

Lexicons ==
    {Restrict(MasterLexicon, S) : S \in SUBSET (DOMAIN MasterLexicon)}
    \cup ExampleLexicons

(***************************************************************************)
(* textstat.syllable_count is an external library function.  It is a        *)
(* deterministic function of the word alone with a non-negative result;     *)
(* the model runs the resolver against two different such functions.        *)
(***************************************************************************)
Vowels == {"a", "e", "i", "o", "u", "y"}

VowelGroups(w) ==
    Cardinality({i \in 1..Len(w) :
        /\ w[i] \in Vowels
        /\ (i = 1 \/ w[i-1] \notin Vowels)})

Estimators == {"groups", "letters"}

textstat_syllable_count(w) ==
    IF estimator = "groups" THEN VowelGroups(w) ELSE Len(w)

(***************************************************************************)
(* syllable_counter.py, split_composite_word and the two scans of           *)
(* composite_word_syllables.                                                *)
(***************************************************************************)
split_composite_word(word, split) ==
    <<Slice(word, 0, split), Slice(word, split, Len(word))>>

InDictionary(w) == w \in DOMAIN dictionary

\* for i in range(len(word) - 2, 1, -1): the first i, scanning downwards from
\* `i`, whose head is in the dictionary; 0 when the loop runs out.
RECURSIVE OuterScan(_, _)
OuterScan(word, i) ==
    IF i <= 1 THEN 0
    ELSE IF InDictionary(split_composite_word(word, i)[1]) THEN i
    ELSE OuterScan(word, i - 1)

\* Variant: the outer loop scans upwards, range(2, len(word) - 1).
HeadIndex_ShortestFirst(word) ==
    LET S == {i \in 2..(Len(word) - 2) :
                 InDictionary(split_composite_word(word, i)[1])}
    IN  IF S = {} THEN 0 ELSE CHOOSE i \in S : \A k \in S : i <= k

\* Variant: a head whose tail is known too is preferred to a longer head.
HeadIndex_KnownTailFirst(word) ==
    LET S == {i \in 2..(Len(word) - 2) :
                 /\ InDictionary(split_composite_word(word, i)[1])
                 /\ InDictionary(split_composite_word(word, i)[2])}
    IN  IF S = {} THEN OuterScan(word, Len(word) - 2)
        ELSE CHOOSE i \in S : \A k \in S : k <= i

\* Variant: the outer loop starts one later, range(len(word) - 1, 1, -1).
HeadIndex_FromLenMinusOne(word) == OuterScan(word, Len(word) - 1)

HeadIndex(word) == OuterScan(word, Len(word) - 2)

\* for j in range(len(word1), 1, -1): the first j, scanning downwards from
\* `j`, with split1 and split2 + word2 both in the dictionary; 0 when none.
RECURSIVE InnerScan(_, _, _)
InnerScan(word1, word2, j) ==
    IF j <= 1 THEN 0
    ELSE LET split1 == split_composite_word(word1, j)[1]
             split2 == split_composite_word(word1, j)[2] \o word2
         IN  IF InDictionary(split1) /\ InDictionary(split2) THEN j
             ELSE InnerScan(word1, word2, j - 1)

\* Variant: the inner loop stops one early, range(len(word1), 2, -1).
RefinedIndex_SkipsTwo(word1, word2) ==
    LET j == InnerScan(word1, word2, Len(word1))
    IN  IF j = 2 THEN 0 ELSE j

RefinedIndex(word1, word2) == InnerScan(word1, word2, Len(word1))

PluralSuffixes ==
    { <<"e","s">>, <<"e","l","s">>, <<"e","n","s">>, <<"e","r","s">>,
      <<"e","m","s">>, <<"i","e","s">>, <<"e","a","u","s">> }

\* word1[0:len(word1) - 1]
DropLast(word1) == Slice(word1, 0, Len(word1) - 1)

\* The ending of the head is not looked at.
PluralApplies_AnyEnding(word1) == InDictionary(DropLast(word1))

PluralApplies(word1) ==
    /\ \E suf \in PluralSuffixes : endswith(word1, suf)
    /\ InDictionary(DropLast(word1))

\* Variant: an s is stripped only when the candidate is not a tail of the
\* original, that is when the s is not the one of the source word.
ConnectorApplies_NotTailOfOriginal(word, orig) ==
    /\ word[1] = "s"
    /\ ~endswith(orig, word)

\* Variant: the comparison with the original is left out.
ConnectorApplies_AnyCandidate(word, orig) == word[1] = "s"

\* word[0] == "s" and word != original (word[0] of "" raises IndexError)
ConnectorApplies(word, orig) == word[1] = "s" /\ word # orig

\* Variant: the slice starts at 0, word[0:len(word)].
StripFirst_KeepsAll(word) == Slice(word, 0, Len(word))

\* word[1:len(word)]
StripFirst(word) == Slice(word, 1, Len(word))

\* Variant: the recursion is on the word instead of on word2.
TailCandidate_WholeWord(word, i) == word

\* The tail count_syllables_word recurses on at line 155.
TailCandidate(word, i) == split_composite_word(word, i)[2]

\* Variant: the s is not put back in front of the tail.
PluralCandidate_WithoutS(word2) == word2

\* "s" + word2, line 152.
PluralCandidate(word2) == <<"s">> \o word2

\* The plural correction is tried before the inner scan.
CompositeBranch_PluralFirst(word, orig) ==
    LET i == HeadIndex(word)
        word1 == split_composite_word(word, i)[1]
        word2 == split_composite_word(word, i)[2]
    IN  IF i # 0
        THEN IF InDictionary(word2) THEN "both"
             ELSE IF PluralApplies(word1) THEN "plural"
             ELSE IF RefinedIndex(word1, word2) # 0 THEN "refined"
             ELSE "head"
        ELSE IF word = <<>> THEN "raise"
             ELSE IF ConnectorApplies(word, orig) THEN "strip"
             ELSE "none"

\* composite_word_syllables(word, orig), lines 130-159: which return
\* statement it leaves through; "none" is falling off the end (None) and
\* "raise" the IndexError of word[0] on the empty string.
CompositeBranch(word, orig) ==
    LET i == HeadIndex(word)
        word1 == split_composite_word(word, i)[1]
        word2 == split_composite_word(word, i)[2]
    IN  IF i # 0
        THEN IF InDictionary(word2) THEN "both"
             ELSE IF RefinedIndex(word1, word2) # 0 THEN "refined"
             ELSE IF PluralApplies(word1) THEN "plural"
             ELSE "head"
        ELSE IF word = <<>> THEN "raise"
             ELSE IF ConnectorApplies(word, orig) THEN "strip"
             ELSE "none"

\* The lookup is skipped when the word can be decomposed.
Branch_CompositeFirst(word, orig) ==
    IF CompositeBranch(word, orig) \notin {"none", "raise"}
    THEN CompositeBranch(word, orig)
    ELSE IF InDictionary(word) THEN "direct"
    ELSE IF CompositeBranch(word, orig) = "none" THEN "fallback"
    ELSE "raise"

\* count_syllables_word(word, orig), lines 172-185: the branch one
\* invocation takes.
Branch(word, orig) ==
    IF InDictionary(word) THEN "direct"
    ELSE IF CompositeBranch(word, orig) = "none" THEN "fallback"
    ELSE CompositeBranch(word, orig)

(***************************************************************************)
(* The text normaliser, lines 45-89.  Characters are named: "a", "e", "s",  *)
(* ... are the ASCII lowercase letters, "B", "S", ... ASCII capitals, "1" a *)
(* digit, "." and "-" ASCII punctuation, "'" the apostrophe, " " a space;   *)
(* "e_acute" / "E_acute" are U+00E9 / U+00C9 (a letter with a canonical     *)
(* decomposition), "combining_acute" is U+0301, "o_slash" is U+00F8 (a      *)
(* letter without decomposition) and "rsquo" is U+2019 (non-ASCII           *)
(* punctuation).                                                            *)
(***************************************************************************)
LowerCase ==
    ("B" :> "b") @@ ("S" :> "s") @@ ("H" :> "h") @@ ("E_acute" :> "e_acute")

\* str.lower, line 86
lower(t) ==
    [k \in 1..Len(t) |-> IF t[k] \in DOMAIN LowerCase THEN LowerCase[t[k]]
                          ELSE t[k]]

\* unicodedata.normalize('NFD', .) of one character, line 52
NFD(c) ==
    IF c = "e_acute" THEN <<"e", "combining_acute">>
    ELSE IF c = "E_acute" THEN <<"E", "combining_acute">>
    ELSE <<c>>

NonAscii == {"e_acute", "E_acute", "combining_acute", "o_slash", "rsquo"}

RECURSIVE Flatten(_)
Flatten(ss) == IF ss = <<>> THEN <<>> ELSE Head(ss) \o Flatten(Tail(ss))

IsAscii(c) == c \notin NonAscii

\* lines 52-55: decompose, encode to ASCII ignoring the rest, decode
strip_accents(t) ==
    SelectSeq(Flatten([k \in 1..Len(t) |-> NFD(t[k])]), IsAscii)

\* \w of a Python 3 str pattern: alphanumeric (any script) or underscore
NonWord == {"'", ".", "-", " ", "rsquo", "combining_acute"}

IsWord(c) == c \notin NonWord

\* \s
IsSpace(c) == c = " "

WordBefore(t, k) == k > 1 /\ IsWord(t[k-1])
WordAfter(t, k) == k < Len(t) /\ IsWord(t[k+1])

\* The three alternatives of the pattern of line 65 at position k.
ApostropheMatch(t, k) ==
    /\ t[k] = "'"
    /\ \/ ~WordBefore(t, k) /\ WordAfter(t, k)
       \/ WordBefore(t, k) /\ ~WordAfter(t, k)
       \/ ~WordBefore(t, k) /\ ~WordAfter(t, k)

\* re.sub(pattern, '', t): t from position k on, without the matched
\* positions D
RECURSIVE DeleteFrom(_, _, _)
DeleteFrom(t, k, D) ==
    IF k > Len(t) THEN <<>>
    ELSE (IF k \in D THEN <<>> ELSE <<t[k]>>) \o DeleteFrom(t, k + 1, D)

\* re.sub(..., '', text), line 65
remove_apostrophes(t) ==
    DeleteFrom(t, 1, {k \in 1..Len(t) : ApostropheMatch(t, k)})

PunctuationMatch(t, k) == ~(IsWord(t[k]) \/ IsSpace(t[k]) \/ t[k] = "'")

\* re.sub(r"[^\w\s\']", '', text), line 75
remove_punctuation(t) ==
    DeleteFrom(t, 1, {k \in 1..Len(t) : PunctuationMatch(t, k)})

\* Variant: the punctuation is removed before the apostrophes.
clean_text_PunctuationFirst(t) ==
    remove_apostrophes(remove_punctuation(strip_accents(lower(t))))

\* Variant: the accents are stripped last instead of second.
clean_text_StripLast(t) ==
    strip_accents(remove_punctuation(remove_apostrophes(lower(t))))

\* lines 86-89
clean_text(t) ==
    remove_punctuation(remove_apostrophes(strip_accents(lower(t))))

\* str.split(): the maximal runs of non-whitespace, in order
RECURSIVE SplitFrom(_, _, _)
SplitFrom(t, k, word) ==
    IF k > Len(t) THEN (IF word = <<>> THEN <<>> ELSE <<word>>)
    ELSE IF IsSpace(t[k])
         THEN (IF word = <<>> THEN <<>> ELSE <<word>>) \o SplitFrom(t, k + 1, <<>>)
         ELSE SplitFrom(t, k + 1, Append(word, t[k]))

split(t) == SplitFrom(t, 1, <<>>)

\* Texts handed to clean_text and count_syllables_text.
TextChars == {"a", "S", "1", "e_acute", "o_slash", "rsquo", "'", ".", " "}

ExampleTexts ==
    { <<"B">> \o Tail(boeken) \o <<" ">> \o kast \o <<".">>,
      <<"e","e","s","e","a"," ","a","s","e","e","s">>,
      <<"e","e","s","a","a"," ","a","s","a","s">>,
      <<"H">> \o Tail(huis) \o skast \o <<" ">> \o deur,
      <<"a","s"," ">> \o huis \o <<"s","s",".">>,
      <<"E_acute","'","a"," ","'","a","'">>,
      <<"a","'","-","b">> }

Texts == SeqsUpTo(TextChars, MaxTextLen) \cup ExampleTexts

NormTexts == SeqsUpTo(TextChars, MaxNormLen) \cup ExampleTexts

\* Lexicons the aggregator is run with.
TextLexicons ==
    { MasterLexicon, (boeken :> 2) @@ (kast :> 1), (huis :> 1) @@ (deur :> 1) }

(***************************************************************************)
(* The resolver.  cur is the innermost count_syllables_word invocation.     *)
(* Every action below is one invocation of count_syllables_word (with the   *)
(* composite_word_syllables call it makes) up to the point where it either  *)
(* returns, raises, or calls count_syllables_word recursively.              *)
(***************************************************************************)
cur == stack[Len(stack)]

Frame(w) == [word |-> w, add |-> 0]

Log(w, b) == [word |-> w, branch |-> b]

\* A recursive call count_syllables_word(w, original, test_accuracy) whose
\* result the calling frame will add `pending` to.
Recurse(w, pending) ==
    stack' = [stack EXCEPT ![Len(stack)].add = pending] \o <<Frame(w)>>

\* Entry of a top-level call count_syllables_word(w, o, ta).
Enter(w, o, ta, who) ==
    /\ stack' = <<Frame(w)>>
    /\ original' = o
    /\ test_accuracy' = ta
    /\ caller' = who
    /\ trail' = <<>>
    /\ estimated' = <<>>
    /\ pc' = "csw"

\* A caller of the class (the accuracy test, a data-frame apply, any user)
\* calls count_syllables_word.
CallWord ==
    /\ pc = "idle"
    /\ \E w \in Words, ta \in BOOLEAN :
         \E o \in {w} \cup OtherOriginals :
            Enter(w, o, ta, "word")
    /\ UNCHANGED <<dictionary, estimator, textstat_count, unknown_count,
                   result, text, cleaned, recleaned, tokens, idx,
                   syllable_count,
                   lines, threads, history,
                   dataset, read_est, score, grade>>

\* Lines 172-173: the word is in the dictionary.
DirectHit ==
    /\ pc = "csw"
    /\ Branch(cur.word, original) = "direct"
    /\ result' = dictionary[cur.word]
    /\ trail' = Append(trail, Log(cur.word, "direct"))
    /\ pc' = "ret"
    /\ UNCHANGED <<dictionary, estimator, caller, stack, original,
                   test_accuracy, textstat_count, unknown_count, estimated,
                   text, cleaned, recleaned, tokens, idx,
                   syllable_count,
                   lines, threads, history,
                   dataset, read_est, score, grade>>

\* Lines 133-136: head and tail are both known.
SplitBothKnown ==
    /\ pc = "csw"
    /\ Branch(cur.word, original) = "both"
    /\ LET i == HeadIndex(cur.word)
           word1 == split_composite_word(cur.word, i)[1]
           word2 == split_composite_word(cur.word, i)[2]
       IN  result' = dictionary[word1] + dictionary[word2]
    /\ trail' = Append(trail, Log(cur.word, "both"))
    /\ pc' = "ret"
    /\ UNCHANGED <<dictionary, estimator, caller, stack, original,
                   test_accuracy, textstat_count, unknown_count, estimated,
                   text, cleaned, recleaned, tokens, idx,
                   syllable_count,
                   lines, threads, history,
                   dataset, read_est, score, grade>>

\* Lines 138-144: an earlier split of the head gives two known words.
RefinedSplit ==
    /\ pc = "csw"
    /\ Branch(cur.word, original) = "refined"
    /\ LET i == HeadIndex(cur.word)
           word1 == split_composite_word(cur.word, i)[1]
           word2 == split_composite_word(cur.word, i)[2]
           j == RefinedIndex(word1, word2)
           split1 == split_composite_word(word1, j)[1]
           split2 == split_composite_word(word1, j)[2] \o word2
       IN  result' = dictionary[split1] + dictionary[split2]
    /\ trail' = Append(trail, Log(cur.word, "refined"))
    /\ pc' = "ret"
    /\ UNCHANGED <<dictionary, estimator, caller, stack, original,
                   test_accuracy, textstat_count, unknown_count, estimated,
                   text, cleaned, recleaned, tokens, idx,
                   syllable_count,
                   lines, threads, history,
                   dataset, read_est, score, grade>>

\* Lines 146-152: the plural s of the head belongs to the second word.
PluralCorrection ==
    /\ pc = "csw"
    /\ Branch(cur.word, original) = "plural"
    /\ LET i == HeadIndex(cur.word)
           word1 == split_composite_word(cur.word, i)[1]
           word2 == split_composite_word(cur.word, i)[2]
       IN  Recurse(PluralCandidate(word2), dictionary[DropLast(word1)])
    /\ trail' = Append(trail, Log(cur.word, "plural"))
    /\ pc' = "csw"
    /\ UNCHANGED <<dictionary, estimator, caller, original, test_accuracy,
                   textstat_count, unknown_count, result, estimated,
                   text, cleaned, recleaned, tokens, idx,
                   syllable_count,
                   lines, threads, history,
                   dataset, read_est, score, grade>>

\* Variant: the tail is passed as the original of the recursive call.
HeadRecursion_TailAsOriginal ==
    /\ pc = "csw"
    /\ Branch(cur.word, original) = "head"
    /\ LET i == HeadIndex(cur.word)
           word1 == split_composite_word(cur.word, i)[1]
       IN  /\ Recurse(TailCandidate(cur.word, i), dictionary[word1])
           /\ original' = TailCandidate(cur.word, i)
    /\ trail' = Append(trail, Log(cur.word, "head"))
    /\ pc' = "csw"
    /\ UNCHANGED <<dictionary, estimator, caller, test_accuracy,
                   textstat_count, unknown_count, result, estimated,
                   text, cleaned, recleaned, tokens, idx,
                   syllable_count, lines, threads, history,
                   dataset, read_est, score, grade>>

\* Lines 154-155: the head is known, the tail is resolved recursively.
HeadRecursion ==
    /\ pc = "csw"
    /\ Branch(cur.word, original) = "head"
    /\ LET i == HeadIndex(cur.word)
           word1 == split_composite_word(cur.word, i)[1]
       IN  Recurse(TailCandidate(cur.word, i), dictionary[word1])
    /\ trail' = Append(trail, Log(cur.word, "head"))
    /\ pc' = "csw"
    /\ UNCHANGED <<dictionary, estimator, caller, original, test_accuracy,
                   textstat_count, unknown_count, result, estimated,
                   text, cleaned, recleaned, tokens, idx,
                   syllable_count,
                   lines, threads, history,
                   dataset, read_est, score, grade>>

\* Lines 157-159: a connection s was added; the rest is resolved recursively.
ConnectorS ==
    /\ pc = "csw"
    /\ Branch(cur.word, original) = "strip"
    /\ Recurse(StripFirst(cur.word), 0)
    /\ trail' = Append(trail, Log(cur.word, "strip"))
    /\ pc' = "csw"
    /\ UNCHANGED <<dictionary, estimator, caller, original, test_accuracy,
                   textstat_count, unknown_count, result, estimated,
                   text, cleaned, recleaned, tokens, idx,
                   syllable_count,
                   lines, threads, history,
                   dataset, read_est, score, grade>>

\* Line 158 on the empty string: word[0] raises IndexError, which no frame
\* catches; the whole call (and count_syllables_text above it) is abandoned.
RaiseIndexError ==
    /\ pc = "csw"
    /\ Branch(cur.word, original) = "raise"
    /\ trail' = Append(trail, Log(cur.word, "raise"))
    /\ stack' = <<>>
    /\ pc' = "raised"
    /\ UNCHANGED <<dictionary, estimator, caller, original, test_accuracy,
                   textstat_count, unknown_count, result, estimated,
                   text, cleaned, recleaned, tokens, idx,
                   syllable_count,
                   lines, threads, history,
                   dataset, read_est, score, grade>>

\* Variant: an accuracy test counts the word and skips the estimator.
Fallback_TestReturnsZero ==
    /\ pc = "csw"
    /\ Branch(cur.word, original) = "fallback"
    /\ textstat_count' =
         IF test_accuracy THEN textstat_count + 1 ELSE textstat_count
    /\ unknown_count' =
         IF test_accuracy /\ cur.word = original
         THEN unknown_count + 1 ELSE unknown_count
    /\ estimated' = Append(estimated, cur.word)
    /\ result' = IF test_accuracy THEN 0 ELSE textstat_syllable_count(cur.word)
    /\ trail' = Append(trail, Log(cur.word, "fallback"))
    /\ pc' = "ret"
    /\ UNCHANGED <<dictionary, estimator, caller, stack, original,
                   test_accuracy, text, cleaned, recleaned, tokens, idx,
                   syllable_count, lines, threads, history,
                   dataset, read_est, score, grade>>

\* Variant: the estimate is stored in the dictionary for the next call.
Fallback_Memoizes ==
    /\ pc = "csw"
    /\ Branch(cur.word, original) = "fallback"
    /\ dictionary' = (cur.word :> textstat_syllable_count(cur.word)) @@ dictionary
    /\ textstat_count' =
         IF test_accuracy THEN textstat_count + 1 ELSE textstat_count
    /\ unknown_count' =
         IF test_accuracy /\ cur.word = original
         THEN unknown_count + 1 ELSE unknown_count
    /\ estimated' = Append(estimated, cur.word)
    /\ result' = textstat_syllable_count(cur.word)
    /\ trail' = Append(trail, Log(cur.word, "fallback"))
    /\ pc' = "ret"
    /\ UNCHANGED <<estimator, caller, stack, original,
                   test_accuracy, text, cleaned, recleaned, tokens, idx,
                   syllable_count, lines, threads, history,
                   dataset, read_est, score, grade>>

\* Lines 177-185: composite_word_syllables returned None.
Fallback ==
    /\ pc = "csw"
    /\ Branch(cur.word, original) = "fallback"
    /\ textstat_count' =
         IF test_accuracy THEN textstat_count + 1 ELSE textstat_count
    /\ unknown_count' =
         IF test_accuracy /\ cur.word = original
         THEN unknown_count + 1 ELSE unknown_count
    /\ estimated' = Append(estimated, cur.word)
    /\ result' = textstat_syllable_count(cur.word)
    /\ trail' = Append(trail, Log(cur.word, "fallback"))
    /\ pc' = "ret"
    /\ UNCHANGED <<dictionary, estimator, caller, stack, original,
                   test_accuracy, text, cleaned, recleaned, tokens, idx,
                   syllable_count,
                   lines, threads, history,
                   dataset, read_est, score, grade>>

\* The calling frame hands the value of the recursive call on as it got it.
Return_DropsPending ==
    /\ pc = "ret"
    /\ Len(stack) > 1
    /\ result' = result
    /\ stack' = SubSeq(stack, 1, Len(stack) - 1)
    /\ UNCHANGED <<dictionary, estimator, pc, caller, original, test_accuracy,
                   textstat_count, unknown_count, trail, estimated,
                   text, cleaned, recleaned, tokens, idx,
                   syllable_count,
                   lines, threads, history,
                   dataset, read_est, score, grade>>

\* A recursive invocation returns to the frame that called it, which adds
\* its pending count and returns in turn (lines 151-152, 155, 159, 177-178).
Return ==
    /\ pc = "ret"
    /\ Len(stack) > 1
    /\ result' = stack[Len(stack) - 1].add + result
    /\ stack' = SubSeq(stack, 1, Len(stack) - 1)
    /\ UNCHANGED <<dictionary, estimator, pc, caller, original, test_accuracy,
                   textstat_count, unknown_count, trail, estimated,
                   text, cleaned, recleaned, tokens, idx,
                   syllable_count,
                   lines, threads, history,
                   dataset, read_est, score, grade>>

\* The top-level invocation returns to the caller of the class.
ReturnWord ==
    /\ pc = "ret"
    /\ Len(stack) = 1
    /\ caller = "word"
    /\ stack' = <<>>
    /\ pc' = "done"
    /\ UNCHANGED <<dictionary, estimator, caller, original, test_accuracy,
                   textstat_count, unknown_count, result, trail, estimated,
                   text, cleaned, recleaned, tokens, idx,
                   syllable_count,
                   lines, threads, history,
                   dataset, read_est, score, grade>>

Resolve ==
    \/ DirectHit
    \/ SplitBothKnown
    \/ RefinedSplit
    \/ PluralCorrection
    \/ HeadRecursion
    \/ ConnectorS
    \/ RaiseIndexError
    \/ Fallback
    \/ Return

(***************************************************************************)
(* Specification of the resolver: a SyllableCounter is constructed          *)
(* (__init__, lines 101-107) over a lexicon and a call is resolved.         *)
(***************************************************************************)
Init ==
    /\ dictionary \in Lexicons
    /\ estimator \in Estimators
    /\ pc = "idle"
    /\ caller = "none"
    /\ stack = <<>>
    /\ original = <<>>
    /\ test_accuracy = FALSE
    /\ textstat_count = 0
    /\ unknown_count = 0
    /\ result = 0
    /\ trail = <<>>
    /\ estimated = <<>>
    /\ text = <<>>
    /\ cleaned = <<>>
    /\ recleaned = <<>>
    /\ tokens = <<>>
    /\ idx = 0
    /\ syllable_count = 0
    /\ lines = <<>>
    /\ threads = <<>>
    /\ history = <<>>
    /\ dataset = {}
    /\ read_est = <<>>
    /\ score = <<>>
    /\ grade = <<>>

Next ==
    \/ CallWord
    \/ DirectHit
    \/ SplitBothKnown
    \/ RefinedSplit
    \/ PluralCorrection
    \/ HeadRecursion
    \/ ConnectorS
    \/ RaiseIndexError
    \/ Fallback
    \/ Return
    \/ ReturnWord

Spec == Init /\ [][Next]_vars

(***************************************************************************)
(* count_syllables_text, lines 187-201.                                     *)
(***************************************************************************)
\* Variant: the count is assigned instead of added.
Accumulate_Overwrite(total, count) == count

\* syllable_count += ..., line 199
Accumulate(total, count) == total + count

\* Lines 195-196: the text is cleaned, split, and the sum starts at 0.
CallText ==
    /\ pc = "idle"
    /\ \E t \in Texts :
          /\ text' = t
          /\ cleaned' = clean_text(t)
          /\ tokens' = split(clean_text(t))
    /\ syllable_count' = 0
    /\ idx' = 1
    /\ caller' = "text"
    /\ pc' = "loop"
    /\ UNCHANGED <<dictionary, estimator, stack, original, test_accuracy,
                   textstat_count, unknown_count, result, trail, estimated,
                   recleaned,
                   lines, threads, history,
                   dataset, read_est, score, grade>>

\* Lines 198-199: the next word is resolved as its own original.
LoopCall ==
    /\ pc = "loop"
    /\ idx <= Len(tokens)
    /\ Enter(tokens[idx], tokens[idx], FALSE, "text")
    /\ UNCHANGED <<dictionary, estimator, textstat_count, unknown_count,
                   result, text, cleaned, recleaned, tokens, idx,
                   syllable_count,
                   lines, threads, history,
                   dataset, read_est, score, grade>>

\* Line 199: the word's count is added and the loop moves on.
ReturnText ==
    /\ pc = "ret"
    /\ Len(stack) = 1
    /\ caller = "text"
    /\ syllable_count' = Accumulate(syllable_count, result)
    /\ idx' = idx + 1
    /\ stack' = <<>>
    /\ pc' = "loop"
    /\ UNCHANGED <<dictionary, estimator, caller, original, test_accuracy,
                   textstat_count, unknown_count, result, trail, estimated,
                   text, cleaned, recleaned, tokens,
                   lines, threads, history,
                   dataset, read_est, score, grade>>

\* Line 201: the loop is over, the sum is returned.
FinishText ==
    /\ pc = "loop"
    /\ idx > Len(tokens)
    /\ result' = syllable_count
    /\ pc' = "done"
    /\ UNCHANGED <<dictionary, estimator, caller, stack, original,
                   test_accuracy, textstat_count, unknown_count, trail,
                   estimated, text, cleaned, recleaned, tokens, idx,
                   syllable_count,
                   lines, threads, history,
                   dataset, read_est, score, grade>>

InitText ==
    /\ dictionary \in TextLexicons
    /\ estimator \in Estimators
    /\ pc = "idle"
    /\ caller = "none"
    /\ stack = <<>>
    /\ original = <<>>
    /\ test_accuracy = FALSE
    /\ textstat_count = 0
    /\ unknown_count = 0
    /\ result = 0
    /\ trail = <<>>
    /\ estimated = <<>>
    /\ text = <<>>
    /\ cleaned = <<>>
    /\ recleaned = <<>>
    /\ tokens = <<>>
    /\ idx = 0
    /\ syllable_count = 0
    /\ lines = <<>>
    /\ threads = <<>>
    /\ history = <<>>
    /\ dataset = {}
    /\ read_est = <<>>
    /\ score = <<>>
    /\ grade = <<>>

NextText ==
    \/ CallText
    \/ LoopCall
    \/ DirectHit
    \/ SplitBothKnown
    \/ RefinedSplit
    \/ PluralCorrection
    \/ HeadRecursion
    \/ ConnectorS
    \/ RaiseIndexError
    \/ Fallback
    \/ Return
    \/ ReturnText
    \/ FinishText

TextSpec == InitText /\ [][NextText]_vars

(***************************************************************************)
(* clean_text applied to a text and then to its own output.                 *)
(***************************************************************************)
CleanOnce ==
    /\ pc = "raw"
    /\ cleaned' = clean_text(text)
    /\ pc' = "clean"
    /\ UNCHANGED <<dictionary, estimator, caller, stack, original,
                   test_accuracy, textstat_count, unknown_count, result,
                   trail, estimated, text, recleaned, tokens, idx,
                   syllable_count,
                   lines, threads, history,
                   dataset, read_est, score, grade>>

CleanAgain ==
    /\ pc = "clean"
    /\ recleaned' = clean_text(cleaned)
    /\ pc' = "reclean"
    /\ UNCHANGED <<dictionary, estimator, caller, stack, original,
                   test_accuracy, textstat_count, unknown_count, result,
                   trail, estimated, text, cleaned, tokens, idx,
                   syllable_count,
                   lines, threads, history,
                   dataset, read_est, score, grade>>

InitNorm ==
    /\ text \in NormTexts
    /\ dictionary = <<>>
    /\ estimator = "groups"
    /\ pc = "raw"
    /\ caller = "none"
    /\ stack = <<>>
    /\ original = <<>>
    /\ test_accuracy = FALSE
    /\ textstat_count = 0
    /\ unknown_count = 0
    /\ result = 0
    /\ trail = <<>>
    /\ estimated = <<>>
    /\ cleaned = <<>>
    /\ recleaned = <<>>
    /\ tokens = <<>>
    /\ idx = 0
    /\ syllable_count = 0
    /\ lines = <<>>
    /\ threads = <<>>
    /\ history = <<>>
    /\ dataset = {}
    /\ read_est = <<>>
    /\ score = <<>>
    /\ grade = <<>>

NextNorm ==
    \/ CleanOnce
    \/ CleanAgain

NormSpec == InitNorm /\ [][NextNorm]_vars

(***************************************************************************)
(* Vocabulary of the properties.  The split positions are stated here       *)
(* directly as sets of indices, independently of the scans above.           *)
(***************************************************************************)
Prefix(w, k) == SubSeq(w, 1, k)
Suffix(w, k) == SubSeq(w, k + 1, Len(w))

Max(S) == CHOOSE m \in S : \A k \in S : k <= m

\* Split indices 2 <= k <= len - 2 whose head is a lexicon key.
KnownHeads(w) == {k \in 2..(Len(w) - 2) : Prefix(w, k) \in DOMAIN dictionary}

\* The first split index, scanning from len - 2 down to 2, whose head is a key.
HeadCut(w) == Max(KnownHeads(w))

\* Inner indices 2 <= j <= len(head) that split the word into two keys.
RefinedCuts(w) ==
    {j \in 2..HeadCut(w) : /\ Prefix(w, j) \in DOMAIN dictionary
                           /\ Suffix(w, j) \in DOMAIN dictionary}

\* The candidate of the top-level call of the current resolution.
TopWord == IF trail # <<>> THEN trail[1].word ELSE stack[1].word

Started == trail # <<>> \/ stack # <<>>

\* Recursive calls of count_syllables_word made so far in this resolution.
RecursiveCalls ==
    Cardinality({k \in 1..Len(trail) :
                    trail[k].branch \in {"plural", "head", "strip"}})

\* A candidate that begins with s, is no key and has no known head.
Unmatched(w) ==
    /\ w # <<>>
    /\ w[1] = "s"
    /\ w \notin DOMAIN dictionary
    /\ KnownHeads(w) = {}

\* The value of count_syllables_word(w, o) as a function; -1 stands for the
\* call raising.
RECURSIVE WordValue(_, _)
WordValue(w, o) ==
    LET b == Branch(w, o)
        i == HeadIndex(w)
        word1 == Prefix(w, i)
        word2 == Suffix(w, i)
        j == RefinedIndex(word1, word2)
        Plus(n, v) == IF v < 0 THEN -1 ELSE n + v
    IN  CASE b = "direct" -> dictionary[w]
          [] b = "both" -> dictionary[word1] + dictionary[word2]
          [] b = "refined" -> dictionary[Prefix(w, j)] + dictionary[Suffix(w, j)]
          [] b = "plural" ->
                Plus(dictionary[DropLast(word1)], WordValue(<<"s">> \o word2, o))
          [] b = "head" -> Plus(dictionary[word1], WordValue(word2, o))
          [] b = "strip" -> WordValue(Tail(w), o)
          [] b = "raise" -> -1
          [] OTHER -> textstat_syllable_count(w)

\* The maximal runs of non-whitespace of t, as pairs of first and last index.
TokenRuns(t) ==
    {r \in (1..Len(t)) \X (1..Len(t)) :
        /\ r[1] <= r[2]
        /\ \A k \in r[1]..r[2] : ~IsSpace(t[k])
        /\ r[1] = 1 \/ IsSpace(t[r[1] - 1])
        /\ r[2] = Len(t) \/ IsSpace(t[r[2] + 1])}

RECURSIVE SumRuns(_, _)
SumRuns(t, R) ==
    IF R = {} THEN 0
    ELSE LET r == CHOOSE x \in R : TRUE
             w == SubSeq(t, r[1], r[2])
         IN  WordValue(w, w) + SumRuns(t, R \ {r})

BoekenKastText == <<"B">> \o Tail(boeken) \o <<" ">> \o kast \o <<".">>

\* The aggregation of every count_syllables_text call that returns: the
\* result is the sum over the tokens of the cleaned text.
C9_SumWhenReturned ==
    (caller = "text" /\ pc = "done")
    => /\ \A r \in TokenRuns(clean_text(text)) :
             WordValue(SubSeq(clean_text(text), r[1], r[2]),
                       SubSeq(clean_text(text), r[1], r[2])) >= 0
       /\ result = SumRuns(clean_text(text), TokenRuns(clean_text(text)))
       /\ result >= 0
       /\ TokenRuns(clean_text(text)) = {} => result = 0
       /\ (text = BoekenKastText /\ dictionary = (boeken :> 2) @@ (kast :> 1))
          => result = 3

(***************************************************************************)
(* dictionary_init, lines 10-31.  A line of the CELEX file is a string of   *)
(* fields separated by backslashes and ended by a newline ("nl"); field 1   *)
(* is the word and field 4 its syllabified transcription, the syllables     *)
(* separated by hyphens, empty when CELEX has none.                         *)
(***************************************************************************)
\* str.split(sep) from position k on; `field` is the field being read.
RECURSIVE SplitOnFrom(_, _, _, _)
SplitOnFrom(t, k, sep, field) ==
    IF k > Len(t) THEN <<field>>
    ELSE IF t[k] = sep
         THEN <<field>> \o SplitOnFrom(t, k + 1, sep, <<>>)
         ELSE SplitOnFrom(t, k + 1, sep, Append(field, t[k]))

\* str.split(sep): empty fields are kept, "" gives [""]
SplitOn(t, sep) == SplitOnFrom(t, 1, sep, <<>>)

\* Words and syllable fields of the generated files.
CelexWords == { <<"s","e","a">>, <<"S","e","a">>, <<"e","e">> }

SyllableFields ==
    { <<>>, <<"a">>, <<"a","-","a">>, <<"a","-","a","-","a">> }

\* IdNum\Word\Inl\IdNumLemma\PhonStrsDISC\... of one word form.
CelexLine(word, syllables) ==
    <<"1", "\\">> \o word \o <<"\\", "1", "\\", "1", "\\">> \o syllables
    \o <<"\\", "a", "nl">>

CelexLines ==
    {CelexLine(w, y) : w \in CelexWords, y \in SyllableFields}

CelexFiles == SeqsUpTo(CelexLines, MaxLines)

\* Variant: the hyphens are counted, syllables.count("-").
SyllableCountOf_Hyphens(syllables) ==
    Cardinality({k \in 1..Len(syllables) : syllables[k] = "-"})

\* len(syllables.split("-")), line 28
SyllableCountOf(syllables) == Len(SplitOn(syllables, "-"))

\* fields = line.split("\\"), line 23 (fields[n] is the n+1st element here)
fields == SplitOn(lines[idx], "\\")

\* Lines 26-27: the syllable field is empty, the line is skipped.
SkipLine ==
    /\ pc = "load"
    /\ idx <= Len(lines)
    /\ fields[5] = <<>>
    /\ idx' = idx + 1
    /\ UNCHANGED <<dictionary, estimator, pc, caller, stack, original,
                   test_accuracy, textstat_count, unknown_count, result,
                   trail, estimated, text, cleaned, recleaned, tokens,
                   syllable_count, lines, threads, history,
                   dataset, read_est, score, grade>>

\* Lines 28-29: the count is stored under the lowercased word.
StoreLine ==
    /\ pc = "load"
    /\ idx <= Len(lines)
    /\ fields[5] # <<>>
    /\ dictionary' = (lower(fields[2]) :> SyllableCountOf(fields[5])) @@ dictionary
    /\ idx' = idx + 1
    /\ UNCHANGED <<estimator, pc, caller, stack, original,
                   test_accuracy, textstat_count, unknown_count, result,
                   trail, estimated, text, cleaned, recleaned, tokens,
                   syllable_count, lines, threads, history,
                   dataset, read_est, score, grade>>

\* Line 31: the loop is over, the dictionary is returned.
ReturnDictionary ==
    /\ pc = "load"
    /\ idx > Len(lines)
    /\ pc' = "built"
    /\ UNCHANGED <<dictionary, estimator, caller, stack, original,
                   test_accuracy, textstat_count, unknown_count, result,
                   trail, estimated, text, cleaned, recleaned, tokens, idx,
                   syllable_count, lines, threads, history,
                   dataset, read_est, score, grade>>

\* Lines 16-20: the dictionary is empty and the file has been read.
InitLex ==
    /\ lines \in CelexFiles
    /\ dictionary = <<>>
    /\ idx = 1
    /\ pc = "load"
    /\ estimator = "groups"
    /\ caller = "none"
    /\ stack = <<>>
    /\ original = <<>>
    /\ test_accuracy = FALSE
    /\ textstat_count = 0
    /\ unknown_count = 0
    /\ result = 0
    /\ trail = <<>>
    /\ estimated = <<>>
    /\ text = <<>>
    /\ cleaned = <<>>
    /\ recleaned = <<>>
    /\ tokens = <<>>
    /\ syllable_count = 0
    /\ threads = <<>>
    /\ history = <<>>
    /\ dataset = {}
    /\ read_est = <<>>
    /\ score = <<>>
    /\ grade = <<>>

NextLex ==
    \/ SkipLine
    \/ StoreLine
    \/ ReturnDictionary

LexSpec == InitLex /\ [][NextLex]_vars

\* The word and the syllable field a line was written with.
WordOfLine(line) ==
    CHOOSE w \in CelexWords : \E y \in SyllableFields : line = CelexLine(w, y)

SyllablesOfLine(line) ==
    CHOOSE y \in SyllableFields : \E w \in CelexWords : line = CelexLine(w, y)

\* The number of hyphen-separated parts of a syllable field.
Parts(y) == 1 + Cardinality({k \in 1..Len(y) : y[k] = "-"})

\* The lines read so far that have syllables and spell w when lowercased.
LinesFor(w) ==
    {k \in 1..(idx - 1) : /\ SyllablesOfLine(lines[k]) # <<>>
                          /\ lower(WordOfLine(lines[k])) = w}

(***************************************************************************)
(* A session: one caller makes several calls of count_syllables_word, one   *)
(* after the other, on the same SyllableCounter, as the accuracy test does  *)
(* (tests/test_accuracy_syllable_counter.py, lines 56-57).  The counters    *)
(* are those the earlier calls left.  history is the log of the calls that  *)
(* returned.                                                                *)
(***************************************************************************)
SessionCalls ==
    { [word |-> xyzzyplugh, original |-> xyzzyplugh],
      [word |-> huis \o skast, original |-> huis \o skast],
      [word |-> skast, original |-> skast],
      [word |-> skast, original |-> huis \o skast],
      [word |-> boekenkast, original |-> boekenkast],
      [word |-> <<"e","e","s","a","a">>, original |-> <<"e","e","s","a","a">>],
      [word |-> <<"a","s","e","e","s">>, original |-> <<"a","s","e","e","s">>],
      [word |-> huis \o <<"s","s">>, original |-> huis \o <<"s","s">>] }

SessionCall ==
    /\ pc = "idle"
    /\ Len(history) < MaxCalls
    /\ \E c \in SessionCalls, ta \in BOOLEAN :
          Enter(c.word, c.original, ta, "session")
    /\ UNCHANGED <<dictionary, estimator, textstat_count, unknown_count,
                   result, text, cleaned, recleaned, tokens, idx,
                   syllable_count, lines, threads, history,
                   dataset, read_est, score, grade>>

\* The top-level invocation returns to the caller, who may call again.
SessionReturn ==
    /\ pc = "ret"
    /\ Len(stack) = 1
    /\ caller = "session"
    /\ history' = Append(history,
            [word |-> stack[1].word, original |-> original,
             test_accuracy |-> test_accuracy,
             textstat_count |-> textstat_count,
             unknown_count |-> unknown_count,
             result |-> result])
    /\ stack' = <<>>
    /\ pc' = "idle"
    /\ UNCHANGED <<dictionary, estimator, caller, original, test_accuracy,
                   textstat_count, unknown_count, result, trail, estimated,
                   text, cleaned, recleaned, tokens, idx, syllable_count,
                   lines, threads,
                   dataset, read_est, score, grade>>

InitSession ==
    /\ dictionary \in TextLexicons
    /\ estimator \in Estimators
    /\ pc = "idle"
    /\ caller = "none"
    /\ stack = <<>>
    /\ original = <<>>
    /\ test_accuracy = FALSE
    /\ textstat_count = 0
    /\ unknown_count = 0
    /\ result = 0
    /\ trail = <<>>
    /\ estimated = <<>>
    /\ text = <<>>
    /\ cleaned = <<>>
    /\ recleaned = <<>>
    /\ tokens = <<>>
    /\ idx = 0
    /\ syllable_count = 0
    /\ lines = <<>>
    /\ threads = <<>>
    /\ history = <<>>
    /\ dataset = {}
    /\ read_est = <<>>
    /\ score = <<>>
    /\ grade = <<>>

NextSession ==
    \/ SessionCall
    \/ DirectHit
    \/ SplitBothKnown
    \/ RefinedSplit
    \/ PluralCorrection
    \/ HeadRecursion
    \/ ConnectorS
    \/ RaiseIndexError
    \/ Fallback
    \/ Return
    \/ SessionReturn

SessionSpec == InitSession /\ [][NextSession]_vars

(***************************************************************************)
(* Several threads use one SyllableCounter.  The lexicon is only read; the  *)
(* statements of count_syllables_word that touch shared state are the two   *)
(* augmented assignments of lines 181 and 183, each a load of the attribute *)
(* followed by a store of the incremented value, with no lock around them.  *)
(* Everything else a call does is local to its thread and is one step.      *)
(***************************************************************************)
Threads == {"t1", "t2"}

\* The calls the threads choose from: an unknown word, a compound whose tail
\* ends in the estimator, and a compound of two known words.
ThreadCalls ==
    { [word |-> xyzzyplugh, original |-> xyzzyplugh],
      [word |-> huis \o skast, original |-> huis \o skast],
      [word |-> huis \o <<"s","s">>, original |-> huis \o <<"s","s">>],
      [word |-> boekenkast, original |-> boekenkast] }

\* The invocation a resolution of (w, o) ends in: its candidate and branch.
RECURSIVE FinalCall(_, _)
FinalCall(w, o) ==
    LET b == Branch(w, o)
        i == HeadIndex(w)
        word2 == split_composite_word(w, i)[2]
    IN  CASE b = "plural" -> FinalCall(PluralCandidate(word2), o)
          [] b = "head" -> FinalCall(TailCandidate(w, i), o)
          [] b = "strip" -> FinalCall(StripFirst(w), o)
          [] OTHER -> [word |-> w, branch |-> b]

IdleThread ==
    [pc |-> "idle", word |-> <<>>, original |-> <<>>, test_accuracy |-> FALSE,
     last |-> <<>>, reg |-> 0, result |-> 0, calls |-> 0,
     textstat_done |-> 0, unknown_done |-> 0]

\* What the steps of the threads leave alone: the lexicon, the estimator and
\* the variables of the single-threaded specifications.
sequential_vars ==
    <<dictionary, estimator, pc, caller, stack, original, test_accuracy,
      result, trail, estimated, text, cleaned, recleaned, tokens, idx,
      syllable_count, lines, history, dataset, read_est, score, grade>>

\* Lines 172-180 of a call and of the recursive calls it makes, up to the
\* fallback of the last one (or to the return, or to the IndexError).
ThreadCall ==
    \E t \in Threads :
    /\ threads[t].pc = "idle"
    /\ threads[t].calls < MaxThreadCalls
    /\ \E c \in ThreadCalls, ta \in BOOLEAN :
         LET f == FinalCall(c.word, c.original)
         IN  threads' = [threads EXCEPT
                 ![t].word = c.word,
                 ![t].original = c.original,
                 ![t].test_accuracy = ta,
                 ![t].last = f.word,
                 ![t].calls = @ + 1,
                 ![t].pc = IF f.branch = "raise" THEN "raised"
                           ELSE IF f.branch = "fallback" /\ ta
                                THEN "load_textstat_count"
                           ELSE "return"]
    /\ UNCHANGED <<textstat_count, unknown_count,
                   dataset, read_est, score, grade>>
    /\ UNCHANGED sequential_vars

\* Line 181, self.textstat_count += 1: the attribute is loaded ...
LoadTextstatCount ==
    \E t \in Threads :
    /\ threads[t].pc = "load_textstat_count"
    /\ threads' = [threads EXCEPT ![t].reg = textstat_count,
                                  ![t].pc = "store_textstat_count"]
    /\ UNCHANGED <<textstat_count, unknown_count,
                   dataset, read_est, score, grade>>
    /\ UNCHANGED sequential_vars

\* ... and the loaded value plus one is stored.  Line 182 follows.
StoreTextstatCount ==
    \E t \in Threads :
    /\ threads[t].pc = "store_textstat_count"
    /\ textstat_count' = threads[t].reg + 1
    /\ threads' = [threads EXCEPT
            ![t].textstat_done = @ + 1,
            ![t].pc = IF threads[t].last = threads[t].original
                      THEN "load_unknown_count" ELSE "return"]
    /\ UNCHANGED unknown_count
    /\ UNCHANGED sequential_vars

\* Line 183, self.unknown_count += 1: the load ...
LoadUnknownCount ==
    \E t \in Threads :
    /\ threads[t].pc = "load_unknown_count"
    /\ threads' = [threads EXCEPT ![t].reg = unknown_count,
                                  ![t].pc = "store_unknown_count"]
    /\ UNCHANGED <<textstat_count, unknown_count,
                   dataset, read_est, score, grade>>
    /\ UNCHANGED sequential_vars

\* ... and the store.
StoreUnknownCount ==
    \E t \in Threads :
    /\ threads[t].pc = "store_unknown_count"
    /\ unknown_count' = threads[t].reg + 1
    /\ threads' = [threads EXCEPT ![t].unknown_done = @ + 1,
                                  ![t].pc = "return"]
    /\ UNCHANGED textstat_count
    /\ UNCHANGED sequential_vars

\* The call returns its value to the thread (lines 173, 178, 185).
ThreadReturn ==
    \E t \in Threads :
    /\ threads[t].pc = "return"
    /\ threads' = [threads EXCEPT
            ![t].result = WordValue(threads[t].word, threads[t].original),
            ![t].pc = "idle"]
    /\ UNCHANGED <<textstat_count, unknown_count,
                   dataset, read_est, score, grade>>
    /\ UNCHANGED sequential_vars

InitConc ==
    /\ dictionary \in TextLexicons
    /\ estimator \in Estimators
    /\ threads = [t \in Threads |-> IdleThread]
    /\ pc = "threads"
    /\ caller = "none"
    /\ stack = <<>>
    /\ original = <<>>
    /\ test_accuracy = FALSE
    /\ textstat_count = 0
    /\ unknown_count = 0
    /\ result = 0
    /\ trail = <<>>
    /\ estimated = <<>>
    /\ text = <<>>
    /\ cleaned = <<>>
    /\ recleaned = <<>>
    /\ tokens = <<>>
    /\ idx = 0
    /\ syllable_count = 0
    /\ lines = <<>>
    /\ history = <<>>
    /\ dataset = {}
    /\ read_est = <<>>
    /\ score = <<>>
    /\ grade = <<>>

NextConc ==
    \/ ThreadCall
    \/ LoadTextstatCount
    \/ StoreTextstatCount
    \/ LoadUnknownCount
    \/ StoreUnknownCount
    \/ ThreadReturn

ConcSpec == InitConc /\ [][NextConc]_vars

\* The threads are all between calls (or dead of an uncaught exception).
Quiescent == \A t \in Threads : threads[t].pc \in {"idle", "raised"}

RECURSIVE SumOver(_, _)
SumOver(f, S) ==
    IF S = {} THEN 0
    ELSE LET x == CHOOSE y \in S : TRUE IN f[x] + SumOver(f, S \ {x})

\* The increments of line 181 / line 183 the threads have executed, which is
\* what the counters hold after the same calls made one after the other.
TextstatIncrements == SumOver([t \in Threads |-> threads[t].textstat_done], Threads)
UnknownIncrements == SumOver([t \in Threads |-> threads[t].unknown_done], Threads)

\* The branches of an invocation that split its candidate.
SplitBranches == {"both", "refined", "plural", "head"}

\* The head at the first split index ends in one of the plural suffixes and
\* is a key without its last character.
PluralHead(w) ==
    /\ \E suf \in PluralSuffixes :
          /\ Len(suf) <= HeadCut(w)
          /\ SubSeq(w, HeadCut(w) - Len(suf) + 1, HeadCut(w)) = suf
    /\ Prefix(w, HeadCut(w) - 1) \in DOMAIN dictionary

\* The candidate is no key, its first head is a key, the tail at that index
\* is not, and no refined split exists.
HeadOnly(w) ==
    /\ w \notin DOMAIN dictionary
    /\ KnownHeads(w) # {}
    /\ Suffix(w, HeadCut(w)) \notin DOMAIN dictionary
    /\ RefinedCuts(w) = {}

\* The capital letters of the texts.
UpperCaseChars == DOMAIN LowerCase \cup {"E"}

\* Positions of t that hold an apostrophe with a word character on both sides.
InsideWord(t) ==
    {k \in 2..(Len(t) - 1) :
        t[k] = "'" /\ IsWord(t[k-1]) /\ IsWord(t[k+1])}

\* Positions of t that hold a word character or whitespace.
WordOrSpace(t) == {k \in 1..Len(t) : IsWord(t[k]) \/ IsSpace(t[k])}

(***************************************************************************)
(* C1.  count_syllables_word is total: whatever the candidate, the          *)
(* original and the lexicon, no invocation, top-level or recursive, ever    *)
(* raises.                                                                  *)
(***************************************************************************)
C1_NeverRaises == pc # "raised"

(***************************************************************************)
(* C2.  Direct hit: a word that is a key of the lexicon, submitted as its   *)
(* own original, returns exactly its lexicon count from a single            *)
(* invocation that neither decomposes nor calls the estimator.              *)
(***************************************************************************)
C2_DirectHit ==
    (/\ trail # <<>>
     /\ original = TopWord
     /\ TopWord \in DOMAIN dictionary)
    => /\ pc \in {"ret", "done"}
       /\ result = dictionary[TopWord]
       /\ trail = <<Log(TopWord, "direct")>>
       /\ estimated = <<>>

\* boekenkast is a key with count 4 although boeken + kast sums to 3.
C2_Witness ==
    /\ pc = "done"
    /\ original = boekenkast
    /\ TopWord = boekenkast
    /\ {boeken, kast, boekenkast} \subseteq DOMAIN dictionary
    /\ dictionary[boekenkast] # dictionary[boeken] + dictionary[kast]
    /\ result = dictionary[boekenkast]

(***************************************************************************)
(* C3.  Every recursive call passes a candidate strictly shorter than the   *)
(* candidate of the call that makes it.                                     *)
(***************************************************************************)
C3_StrictlyShorter ==
    \A k \in 2..Len(stack) : Len(stack[k].word) < Len(stack[k-1].word)

\* A plural-correction call followed by a connector-s call are both active.
C3_Witness ==
    /\ pc = "csw"
    /\ Len(stack) = 3
    /\ Len(trail) = 2
    /\ trail[1].branch = "plural"
    /\ trail[2].branch = "strip"

(***************************************************************************)
(* C4.  Termination bound: a resolution of a candidate of length n makes at *)
(* most n recursive calls and its recursion is never deeper than that: the  *)
(* calls made plus the length of the current candidate never exceed n, so   *)
(* the recursion runs out of candidate and the resolution terminates.       *)
(***************************************************************************)
C4_TerminationBound ==
    Started =>
       /\ RecursiveCalls <= Len(TopWord)
       /\ Len(stack) <= Len(TopWord) + 1
       /\ pc = "csw" => RecursiveCalls + Len(cur.word) <= Len(TopWord)

\* A resolution that returned after two recursive calls.
C4_Witness ==
    /\ pc = "done"
    /\ original = TopWord
    /\ RecursiveCalls >= 2

(***************************************************************************)
(* C5.  Compositionality: a candidate that is not a key, whose first head   *)
(* (longest first) is a key and whose tail at that index is a key too,      *)
(* returns the sum of the two counts; boekenkast over {boeken: 2, kast: 1}  *)
(* returns 3.                                                               *)
(***************************************************************************)
C5_Compositionality ==
    /\ (/\ pc = "ret"
        /\ cur.word \notin DOMAIN dictionary
        /\ KnownHeads(cur.word) # {}
        /\ Suffix(cur.word, HeadCut(cur.word)) \in DOMAIN dictionary)
       => result = dictionary[Prefix(cur.word, HeadCut(cur.word))]
                   + dictionary[Suffix(cur.word, HeadCut(cur.word))]
    /\ (/\ pc = "done"
        /\ dictionary = (boeken :> 2) @@ (kast :> 1)
        /\ original = boekenkast
        /\ TopWord = boekenkast)
       => result = 3

C5_Witness ==
    /\ pc = "done"
    /\ dictionary = (boeken :> 2) @@ (kast :> 1)
    /\ original = boekenkast
    /\ TopWord = boekenkast
    /\ result = 3

(***************************************************************************)
(* C6.  Refined split: when the first head is a key, the tail is not, and   *)
(* some inner index j splits the word into two keys, the invocation returns *)
(* the sum of the two counts for the largest such j without any recursive   *)
(* call (so before the plural correction and the plain head recursion);     *)
(* schoolboeken over {school: 1, boeken: 2} returns 3.                      *)
(***************************************************************************)
C6_RefinedSplit ==
    /\ (/\ pc = "ret"
        /\ cur.word \notin DOMAIN dictionary
        /\ KnownHeads(cur.word) # {}
        /\ Suffix(cur.word, HeadCut(cur.word)) \notin DOMAIN dictionary
        /\ RefinedCuts(cur.word) # {})
       => /\ result = dictionary[Prefix(cur.word, Max(RefinedCuts(cur.word)))]
                      + dictionary[Suffix(cur.word, Max(RefinedCuts(cur.word)))]
          /\ Len(trail) = Len(stack)
          /\ trail[Len(trail)].word = cur.word
    /\ (/\ pc = "done"
        /\ dictionary = (school :> 1) @@ (boeken :> 2)
        /\ original = schoolboeken
        /\ TopWord = schoolboeken)
       => result = 3

\* ees + ea: the head ees also qualifies for the plural correction.
C6_Witness ==
    /\ pc = "ret"
    /\ Len(stack) = 1
    /\ cur.word = <<"e","e","s","e","a">>
    /\ KnownHeads(cur.word) # {}
    /\ HeadCut(cur.word) = 3
    /\ RefinedCuts(cur.word) = {2}
    /\ Prefix(cur.word, 2) \in DOMAIN dictionary
    /\ result = dictionary[<<"e","e">>] + dictionary[<<"s","e","a">>]

(***************************************************************************)
(* C7.  Connector-s stripping happens only for a candidate that differs     *)
(* from the original.  A word submitted as its own original that begins     *)
(* with s, is not a key and has no known head goes to the estimator whole;  *)
(* a derived candidate of the same shape is resolved as candidate[1:].      *)
(***************************************************************************)
C7_ConnectorOnlyDerived ==
    /\ \A k \in 1..Len(trail) :
          trail[k].branch = "strip" => trail[k].word # original
    /\ (trail # <<>> /\ original = TopWord /\ Unmatched(TopWord))
       => /\ pc \in {"ret", "done"}
          /\ trail = <<Log(TopWord, "fallback")>>
          /\ estimated = <<TopWord>>
          /\ result = textstat_syllable_count(TopWord)
    /\ \A k \in 2..Len(trail) :
          (original = TopWord /\ Unmatched(trail[k].word))
          => /\ trail[k].branch = "strip"
             /\ \/ k < Len(trail) /\ trail[k+1].word = Tail(trail[k].word)
                \/ k = Len(trail) /\ pc = "csw"
                                  /\ cur.word = Tail(trail[k].word)

C7_Witness ==
    /\ pc = "done"
    /\ original = skast
    /\ trail = <<Log(skast, "fallback")>>
    /\ estimated = <<skast>>

(***************************************************************************)
(* C8.  Fallback delegation: a word submitted as its own original that is   *)
(* not a key and has no split index with a known head returns exactly the   *)
(* estimator's value for the whole word.                                    *)
(***************************************************************************)
C8_FallbackDelegation ==
    (/\ trail # <<>>
     /\ original = TopWord
     /\ TopWord \notin DOMAIN dictionary
     /\ KnownHeads(TopWord) = {})
    => /\ pc \in {"ret", "done"}
       /\ result = textstat_syllable_count(TopWord)
       /\ estimated = <<TopWord>>

\* What the code does deliver of C8: every non-empty such word returns the
\* estimator's value of the whole word.
C8_NonEmptyDelegation ==
    (/\ trail # <<>>
     /\ original = TopWord
     /\ TopWord # <<>>
     /\ TopWord \notin DOMAIN dictionary
     /\ KnownHeads(TopWord) = {})
    => /\ pc \in {"ret", "done"}
       /\ result = textstat_syllable_count(TopWord)
       /\ estimated = <<TopWord>>

(***************************************************************************)
(* C9.  Aggregation: count_syllables_text returns, for every text, the sum  *)
(* over the whitespace-delimited tokens of the cleaned text of              *)
(* count_syllables_word(token, token): the call never raises, its result is *)
(* a non-negative integer, 0 when there is no token, and "Boeken kast."     *)
(* over {boeken: 2, kast: 1} gives 3.                                       *)
(***************************************************************************)
C9_Aggregation ==
    /\ caller = "text" => pc # "raised"
    /\ C9_SumWhenReturned

(***************************************************************************)
(* C10.  Normalisation is idempotent: clean_text(clean_text(x)) is          *)
(* clean_text(x) for every text x.                                          *)
(***************************************************************************)
C10_Idempotent == pc = "reclean" => recleaned = cleaned

\* A text that clean_text changes and in which an apostrophe survives.
C10_Witness ==
    /\ pc = "reclean"
    /\ cleaned # text
    /\ cleaned # <<>>
    /\ \E k \in 1..Len(cleaned) : cleaned[k] = "'"
    /\ recleaned = cleaned

(***************************************************************************)
(* C11.  The output of clean_text holds only lowercase word characters,     *)
(* whitespace and apostrophes, and every apostrophe of the output has a     *)
(* word character on both sides.  It is the lowercased, accent-stripped     *)
(* text without every character that is neither a word character, nor       *)
(* whitespace, nor an apostrophe that has a word character on both sides in *)
(* that text (before any punctuation is deleted): a'-b gives ab.            *)
(***************************************************************************)
C11_CleanOutput ==
    pc \in {"clean", "reclean"} =>
       LET s == strip_accents(lower(text))
       IN  /\ \A k \in 1..Len(cleaned) :
                 \/ cleaned[k] = "'"
                 \/ IsSpace(cleaned[k])
                 \/ IsWord(cleaned[k]) /\ cleaned[k] \notin UpperCaseChars
           /\ \A k \in 1..Len(cleaned) :
                 cleaned[k] = "'" => k \in InsideWord(cleaned)
           /\ cleaned = DeleteFrom(s, 1, (1..Len(s))
                                         \ (WordOrSpace(s) \cup InsideWord(s)))
           /\ text = <<"a","'","-","b">> => cleaned = <<"a","b">>

\* The apostrophe of a'-b is followed by punctuation and is deleted with it.
C11_Witness ==
    /\ pc = "clean"
    /\ text = <<"a","'","-","b">>
    /\ cleaned = <<"a","b">>

C13_NoLostIncrement ==
    Quiescent => /\ textstat_count = TextstatIncrements
                 /\ unknown_count = UnknownIncrements

(***************************************************************************)
(* C14.  The lexicon is never mutated after construction: no step of        *)
(* count_syllables_text, count_syllables_word or composite_word_syllables,  *)
(* whichever branch it takes, adds, removes or changes an entry.            *)
(***************************************************************************)
C14_LexiconFrozen == [][dictionary' = dictionary]_vars

\* A text has been counted whose first token went through the plural
\* correction, the connector-s stripping and the estimator, and whose second
\* token was split into two known words.
C14_Witness ==
    /\ pc = "done"
    /\ caller = "text"
    /\ text = <<"e","e","s","a","a"," ","a","s","a","s">>
    /\ dictionary = MasterLexicon
    /\ trail = <<Log(<<"a","s","a","s">>, "both")>>
    /\ result = 1 + textstat_syllable_count(<<"a","a">>) + 2

(***************************************************************************)
(* C15.  Resolution is deterministic and stateless: the value a call of     *)
(* count_syllables_word(candidate, original) returns is a function of the   *)
(* candidate, the original, the lexicon and the estimator.  Two calls of    *)
(* one session with the same candidate and original return the same value,  *)
(* whatever their test_accuracy flags, the counters at the time and the     *)
(* calls made before them.                                                  *)
(***************************************************************************)
C15_Deterministic ==
    \A a \in 1..Len(history) :
       /\ history[a].result = WordValue(history[a].word, history[a].original)
       /\ \A b \in 1..Len(history) :
             (/\ history[a].word = history[b].word
              /\ history[a].original = history[b].original)
             => history[a].result = history[b].result

\* The same unknown word resolved with and without the accuracy flag, the
\* counters having moved in between.
C15_Witness ==
    /\ Len(history) = 2
    /\ history[1].word = history[2].word
    /\ history[1].original = history[2].original
    /\ history[1].test_accuracy /\ ~history[2].test_accuracy
    /\ history[1].textstat_count = 1
    /\ history[2].textstat_count = 1
    /\ history[1].word \notin DOMAIN dictionary
    /\ history[1].result = history[2].result

(***************************************************************************)
(* C16.  Every entry dictionary_init produces has a positive count.  A line *)
(* whose syllable field is empty produces no entry; every other line is     *)
(* stored under its lowercased word with the number of hyphen-separated     *)
(* parts of its syllable field (at least 1), so the dictionary holds, for   *)
(* each lowercased word with syllables, the count of its last line.         *)
(***************************************************************************)
C16_PositiveCounts ==
    pc \in {"load", "built"} =>
       /\ \A w \in DOMAIN dictionary : dictionary[w] >= 1
       /\ DOMAIN dictionary =
             {lower(WordOfLine(lines[k])) :
                 k \in {n \in 1..(idx - 1) : SyllablesOfLine(lines[n]) # <<>>}}
       /\ \A w \in DOMAIN dictionary :
             dictionary[w] = Parts(SyllablesOfLine(lines[Max(LinesFor(w))]))
       /\ (idx > 1 /\ SyllablesOfLine(lines[idx - 1]) # <<>>)
          => dictionary[lower(WordOfLine(lines[idx - 1]))]
             = Parts(SyllablesOfLine(lines[idx - 1]))

\* A line without syllables and a capitalised word of two syllables.
C16_Witness ==
    /\ pc = "built"
    /\ lines = << CelexLine(<<"e","e">>, <<>>),
                  CelexLine(<<"S","e","a">>, <<"a","-","a">>) >>
    /\ dictionary = (<<"s","e","a">> :> 2)

(***************************************************************************)
(* C17.  Longest head first, first match wins.  An invocation whose         *)
(* candidate is not a key but has a split index with a known head uses the  *)
(* longest such head and no other: it returns through one of the four       *)
(* branches of that head, the both-known branch exactly when the tail at    *)
(* that index is a key, and its recursive call, if any, is on the tail at   *)
(* that index.  No candidate is examined a second time with a shorter head, *)
(* even when the branch ends in the estimator: aseeas over the keys as,     *)
(* ase, ee, ... is ase + estimate(eas), not as + ee + as.                   *)
(***************************************************************************)
C17_LongestHeadFirst ==
    /\ \A k \in 1..Len(trail) :
          LET w == trail[k].word
              h == HeadCut(w)
          IN  (w \notin DOMAIN dictionary /\ KnownHeads(w) # {})
              => /\ trail[k].branch \in SplitBranches
                 /\ trail[k].branch = "both"
                    <=> Suffix(w, h) \in DOMAIN dictionary
                 /\ (k < Len(stack) /\ trail[k].branch = "head")
                    => /\ stack[k+1].word = Suffix(w, h)
                       /\ stack[k].add = dictionary[Prefix(w, h)]
                 /\ (k < Len(stack) /\ trail[k].branch = "plural")
                    => /\ stack[k+1].word = <<"s">> \o Suffix(w, h)
                       /\ stack[k].add = dictionary[Prefix(w, h - 1)]
    /\ \A k, l \in 1..Len(trail) : k < l => trail[k].word # trail[l].word
    /\ (/\ pc = "done"
        /\ dictionary = MasterLexicon
        /\ original = aseeas
        /\ TopWord = aseeas)
       => /\ result = 2 + textstat_syllable_count(<<"e","a","s">>)
          /\ estimated = << <<"e","a","s">> >>

C17_Witness ==
    /\ pc = "done"
    /\ dictionary = MasterLexicon
    /\ original = aseeas
    /\ TopWord = aseeas
    /\ KnownHeads(aseeas) = {2, 3}
    /\ trail = <<Log(aseeas, "head"), Log(<<"e","a","s">>, "fallback")>>

(***************************************************************************)
(* C18.  Plural correction: when the first head is a key, the tail is not,  *)
(* no refined split exists, the head ends in es, els, ens, ers, ems, ies or *)
(* eaus and the head without its last character is a key, the invocation    *)
(* calls itself on "s" + tail with the same original and returns the count  *)
(* of the shortened head plus the value of that call; the plain head        *)
(* recursion is not taken.                                                  *)
(***************************************************************************)
C18_PluralCorrection ==
    /\ \A k \in 1..Len(trail) :
          LET w == trail[k].word
              h == HeadCut(w)
          IN  (HeadOnly(w) /\ PluralHead(w))
              => /\ trail[k].branch = "plural"
                 /\ k < Len(stack)
                    => /\ stack[k+1].word = <<"s">> \o Suffix(w, h)
                       /\ stack[k].add = dictionary[Prefix(w, h - 1)]
    /\ (pc = "ret" /\ HeadOnly(cur.word) /\ PluralHead(cur.word))
       => result = dictionary[Prefix(cur.word, HeadCut(cur.word) - 1)]
                   + WordValue(<<"s">> \o Suffix(cur.word, HeadCut(cur.word)),
                               original)

\* eesaa: ee + resolve(saa) = 1 + estimate(aa), where the plain head
\* recursion would give ees + estimate(aa).
C18_Witness ==
    /\ pc = "done"
    /\ original = TopWord
    /\ TopWord = <<"e","e","s","a","a">>
    /\ {<<"e","e">>, <<"e","e","s">>} \subseteq DOMAIN dictionary
    /\ trail = <<Log(TopWord, "plural"), Log(<<"s","a","a">>, "strip"),
                 Log(<<"a","a">>, "fallback")>>
    /\ result = dictionary[<<"e","e">>] + textstat_syllable_count(<<"a","a">>)
    /\ result # dictionary[<<"e","e","s">>]
                + textstat_syllable_count(<<"a","a">>)

(***************************************************************************)
(* C19.  Plain head recursion: when the first head is a key and neither the *)
(* both-known split, nor a refined split, nor the plural correction         *)
(* applies, the invocation calls itself on the tail and returns the count   *)
(* of the head plus the value of that call; the original is the same in     *)
(* every invocation of a resolution.                                        *)
(***************************************************************************)
C19_PlainHeadRecursion ==
    /\ [](/\ \A k \in 1..Len(trail) :
               LET w == trail[k].word
                   h == HeadCut(w)
               IN  (HeadOnly(w) /\ ~PluralHead(w))
                   => /\ trail[k].branch = "head"
                      /\ k < Len(stack)
                         => /\ stack[k+1].word = Suffix(w, h)
                            /\ stack[k].add = dictionary[Prefix(w, h)]
          /\ (pc = "ret" /\ HeadOnly(cur.word) /\ ~PluralHead(cur.word))
             => result = dictionary[Prefix(cur.word, HeadCut(cur.word))]
                         + WordValue(Suffix(cur.word, HeadCut(cur.word)),
                                     original))
    /\ [][pc = "csw" => original' = original]_vars

\* huisskast over {huis: 1, deur: 1}: huis + resolve(skast, huisskast).
C19_Witness ==
    /\ pc = "done"
    /\ original = huis \o skast
    /\ TopWord = huis \o skast
    /\ huis \in DOMAIN dictionary
    /\ trail[1] = Log(huis \o skast, "head")
    /\ result = dictionary[huis] + WordValue(skast, huis \o skast)

(***************************************************************************)
(* C20.  As claimed: in the resolution of a word submitted as its own       *)
(* original, a leading s is stripped only from a candidate that a plural    *)
(* correction ("s" + tail) or a previous strip produced; a candidate that   *)
(* is a plain tail of the source word and begins with s is not stripped.    *)
(***************************************************************************)
C20_OnlySyntheticS ==
    (trail # <<>> /\ original = TopWord) =>
       \A k \in 1..Len(trail) :
          /\ trail[k].branch = "strip"
             => k > 1 /\ trail[k-1].branch \in {"plural", "strip"}
          /\ (k > 1 /\ trail[k-1].branch = "head" /\ trail[k].word # <<>>
                    /\ trail[k].word[1] = "s")
             => trail[k].branch # "strip"

(***************************************************************************)
(* C20, amended.  A leading s is stripped from exactly the candidates that  *)
(* begin with s, differ from the original, are no key and have no split     *)
(* index with a known head, however they were produced: by a plural         *)
(* correction, by a previous strip, as the plain tail of a head recursion   *)
(* (stad, tail of huisstad, is stripped to tad) or submitted by the caller  *)
(* with another original.                                                   *)
(***************************************************************************)
C20_StripWhateverTheOrigin ==
    /\ \A k \in 1..Len(trail) :
          trail[k].branch = "strip"
          <=> (Unmatched(trail[k].word) /\ trail[k].word # original)
    /\ \A k \in 1..Len(trail) :
          (trail[k].branch = "strip" /\ k < Len(stack))
          => stack[k+1].word = Tail(trail[k].word)
    /\ (/\ pc = "done"
        /\ dictionary = (huis :> 1) @@ (deur :> 1)
        /\ original = huisstad
        /\ TopWord = huisstad)
       => /\ trail = <<Log(huisstad, "head"), Log(stad, "strip"),
                       Log(Tail(stad), "fallback")>>
          /\ estimated = <<Tail(stad)>>
          /\ result = 1 + textstat_syllable_count(Tail(stad))

\* The plain tail stad of huisstad has been stripped.
C20_Witness ==
    /\ pc = "done"
    /\ original = huisstad
    /\ TopWord = huisstad
    /\ Len(trail) = 3
    /\ trail[1].branch = "head"
    /\ trail[2] = Log(stad, "strip")
    /\ estimated = <<Tail(stad)>>

(***************************************************************************)
(* The accuracy report of the compound words                                *)
(* (tests/test_accuracy_syllable_counter.py, lines 43-62).  One             *)
(* SyllableCounter is built, every word of the dataset is submitted with    *)
(* itself as original and test_accuracy = True, in the order in which the   *)
(* set happens to be iterated, and the report is then built from            *)
(* sc.get_textstat_count() and sc.get_unknown_count().                      *)
(***************************************************************************)
MaxWords == 3

AccuracyWords ==
    { xyzzyplugh, kast, boekenkast, skast, huis \o skast,
      huis \o <<"s","s">>,
      <<"e","e","s","a","a">>, <<"a","s","e","e","s">> }

Datasets == {d \in SUBSET AccuracyWords : Cardinality(d) <= MaxWords}

\* What an instance of SyllableCounter answers to: the attributes that
\* __init__ sets and the methods that the class defines.
SyllableCounterAttributes ==
    { "textstat_count", "unknown_count", "get_dictionary",
      "composite_word_syllables", "count_syllables_word",
      "count_syllables_text" }

\* The words of the dataset whose call has returned.
Submitted == {history[k].word : k \in 1..Len(history)}

\* total = len(dataset)
total == Cardinality(dataset)

\* Lines 56-57: the next word of the set, in any order.
AccuracyCall ==
    /\ pc = "idle"
    /\ \E w \in dataset \ Submitted : Enter(w, w, TRUE, "session")
    /\ UNCHANGED <<dictionary, estimator, textstat_count, unknown_count,
                   result, text, cleaned, recleaned, tokens, idx,
                   syllable_count, lines, threads, history,
                   dataset, read_est, score, grade>>

\* The three percentages of lines 59-62, each as <<numerator, denominator>>
\* of the quotient that is multiplied by 100.
Percentages(textstat, unknown) ==
    << <<(total - textstat) * 100, total>>,
       <<(textstat - unknown) * 100, total>>,
       <<unknown * 100, total>> >>

\* Lines 59-62, after the loop.  The first operand evaluated is
\* sc.get_textstat_count(): the attribute lookup raises AttributeError when
\* the instance has no such attribute, before anything is divided.
ReportAccuracy ==
    /\ pc = "idle"
    /\ Submitted = dataset
    /\ IF {"get_textstat_count", "get_unknown_count"}
              \subseteq SyllableCounterAttributes
       THEN IF total = 0
            THEN pc' = "zero_division" /\ UNCHANGED result
            ELSE /\ pc' = "reported"
                 /\ result' = Percentages(textstat_count, unknown_count)
       ELSE pc' = "attribute_error" /\ UNCHANGED result
    /\ UNCHANGED <<dictionary, estimator, caller, stack, original,
                   test_accuracy, textstat_count, unknown_count, trail,
                   estimated, text, cleaned, recleaned, tokens, idx,
                   syllable_count, lines, threads, history,
                   dataset, read_est, score, grade>>

InitAccuracy ==
    /\ dictionary \in TextLexicons
    /\ estimator \in Estimators
    /\ pc = "idle"
    /\ caller = "none"
    /\ stack = <<>>
    /\ original = <<>>
    /\ test_accuracy = FALSE
    /\ textstat_count = 0
    /\ unknown_count = 0
    /\ result = 0
    /\ trail = <<>>
    /\ estimated = <<>>
    /\ text = <<>>
    /\ cleaned = <<>>
    /\ recleaned = <<>>
    /\ tokens = <<>>
    /\ idx = 0
    /\ syllable_count = 0
    /\ lines = <<>>
    /\ threads = <<>>
    /\ history = <<>>
    /\ dataset \in Datasets
    /\ read_est = <<>>
    /\ score = <<>>
    /\ grade = <<>>

NextAccuracy ==
    \/ AccuracyCall
    \/ DirectHit
    \/ SplitBothKnown
    \/ RefinedSplit
    \/ PluralCorrection
    \/ HeadRecursion
    \/ ConnectorS
    \/ RaiseIndexError
    \/ Fallback
    \/ Return
    \/ SessionReturn
    \/ ReportAccuracy

AccSpec == InitAccuracy /\ [][NextAccuracy]_vars

\* The counters as the last returned call left them (0 before the first).
CountersBefore ==
    IF history = <<>>
    THEN [textstat_count |-> 0, unknown_count |-> 0]
    ELSE [textstat_count |-> history[Len(history)].textstat_count,
          unknown_count |-> history[Len(history)].unknown_count]

\* What holds of the counters while the words are submitted: they are
\* ordered, a word adds at most one to textstat_count, and it adds one to
\* unknown_count exactly when the estimator was handed the whole word.
CounterBounds ==
    /\ 0 <= unknown_count
    /\ unknown_count <= textstat_count
    /\ textstat_count <= Len(history) + (IF stack = <<>> THEN 0 ELSE 1)
    /\ (pc = "ret" /\ Len(stack) = 1)
       => /\ textstat_count - CountersBefore.textstat_count \in {0, 1}
          /\ textstat_count - CountersBefore.textstat_count = Len(estimated)
          /\ unknown_count - CountersBefore.unknown_count
                = (IF estimated = <<stack[1].word>> THEN 1 ELSE 0)

(***************************************************************************)
(* C21.  After the words of a non-empty dataset have been submitted with    *)
(* test_accuracy = True, the counters satisfy 0 <= unknown_count <=         *)
(* textstat_count <= number of words submitted, and                         *)
(* accuracy_compound_unique_words reports three percentages that lie in     *)
(* [0, 100] and sum to 100.                                                 *)
(***************************************************************************)
C21_AccuracyReport ==
    /\ CounterBounds
    /\ (dataset # {} /\ Submitted = dataset)
       => /\ pc # "attribute_error"
          /\ pc = "reported"
             => /\ \A k \in 1..3 : /\ 0 <= result[k][1]
                                   /\ result[k][1] <= 100 * result[k][2]
                /\ result[1][1] + result[2][1] + result[3][1] = 100 * total

(***************************************************************************)
(* The readability formulas (readability_estimation.py).  read_est holds    *)
(* the fields that ReadabilityEstimation.__init__ computes from a text with *)
(* textstat, the syllable counter and the frequency lists; frequent and     *)
(* frequent_no_stop are the numerators frequent + stop_count of the two     *)
(* calculate_freq77 calls, unique_words is len(unique_words) of clib.       *)
(* A real number is kept exactly, as a pair <<numerator, denominator>> with *)
(* a positive denominator.  textstat is not part of the repository: both a  *)
(* sentence count of 0 and one of 1 are allowed for a text without words.  *)
(***************************************************************************)
MaxSentences == 2
MaxWordCount == 2
MaxLetters == 3
MaxSyllables == 4

Estimations ==
    { r \in [sentence_count : 0..MaxSentences,
             word_count : 0..MaxWordCount,
             letter_count : 0..MaxLetters,
             syllable_count : 0..MaxSyllables,
             frequent : 0..MaxWordCount,
             frequent_no_stop : 0..MaxWordCount,
             unique_words : 0..MaxWordCount] :
        /\ r.frequent <= r.word_count
        /\ r.frequent_no_stop <= r.word_count
        /\ r.unique_words <= r.word_count }

\* int(x) of a real x = v[1] / v[2]: the fraction is dropped, towards zero.
int(v) ==
    IF v[1] >= 0 THEN v[1] \div v[2] ELSE 0 - ((0 - v[1]) \div v[2])

\* 206.84 - 0.93 * (w / sen) - 77 * (syl / w)
FleschDoumaValue(r) ==
    << 20684 * r.sentence_count * r.word_count
         - 93 * r.word_count * r.word_count
         - 7700 * r.syllable_count * r.sentence_count,
       100 * r.sentence_count * r.word_count >>

\* 195 - 2 * (w / sen) - 66.67 * (syl / w)
LeesindexAValue(r) ==
    << 19500 * r.sentence_count * r.word_count
         - 200 * r.word_count * r.word_count
         - 6667 * r.syllable_count * r.sentence_count,
       100 * r.sentence_count * r.word_count >>

\* The numerator of freq77 = ((frequent + stop_count) / w) * 100.
Frequent(r, freq_no_stop) ==
    IF freq_no_stop THEN r.frequent_no_stop ELSE r.frequent

\* 46 + 0.474 * freq77 - 6.603 * (let / w) - 0.364 * ((unique / w) * 100)
\*    + 1.425 * ((sen / w) * 100)
ClibValue(r, freq_no_stop) ==
    << 46000 * r.word_count + 47400 * Frequent(r, freq_no_stop)
         - 6603 * r.letter_count - 36400 * r.unique_words
         + 142500 * r.sentence_count,
       1000 * r.word_count >>

\* 150 - (114.49 + 0.28 * freq77 - 12.33 * (let / w))
CiltValue(r, freq_no_stop) ==
    << 15000 * r.word_count
         - (11449 * r.word_count + 2800 * Frequent(r, freq_no_stop)
              - 1233 * r.letter_count),
       100 * r.word_count >>

\* try: return int(...)  except ZeroDivisionError: return 0
IntOrZero(v) == IF v[2] = 0 THEN 0 ELSE int(v)

\* The score-to-grade mappings, lines 19-31: each key range(lo, hi) holds
\* the scores lo .. hi - 1.
Range(lo, hi, grades) == [lo |-> lo, hi |-> hi, grades |-> grades]

flesch_douma_mapping ==
    << Range(-5, 30, <<13>>), Range(30, 45, <<11, 12>>),
       Range(45, 60, <<9, 10>>), Range(60, 70, <<7, 8>>),
       Range(70, 80, <<6>>), Range(80, 90, <<5>>), Range(90, 101, <<4>>),
       Range(101, 130, <<1, 2, 3>>) >>

leesindex_a_mapping ==
    << Range(-20, 20, <<13>>), Range(20, 35, <<11, 12, 13>>),
       Range(35, 40, <<10, 11, 12, 13>>), Range(40, 50, <<10, 11>>),
       Range(50, 55, <<8, 9, 10, 11>>), Range(55, 69, <<8, 9, 10>>),
       Range(69, 74, <<5, 6, 7, 8>>), Range(74, 79, <<4, 5>>),
       Range(79, 84, <<3, 4, 5>>), Range(84, 89, <<3, 4>>),
       Range(89, 101, <<2, 3>>), Range(101, 130, <<1, 2>>) >>

clib_mapping ==
    << Range(-25, 8, <<1>>), Range(8, 21, <<2>>), Range(21, 36, <<3>>),
       Range(36, 49, <<4>>), Range(49, 62, <<5>>), Range(62, 75, <<6>>),
       Range(75, 88, <<7>>), Range(88, 200, <<8>>) >>

cilt_mapping ==
    << Range(45, 59, <<1>>), Range(59, 64, <<2>>), Range(64, 68, <<3>>),
       Range(68, 72, <<4>>), Range(72, 75, <<5>>),
       Range(75, 135, <<6, 7, 8>>) >>

\* The mapping that scores_to_grades hands over with each formula's column.
MappingOf(formula) ==
    CASE formula = "Flesch-Douma" -> flesch_douma_mapping
      [] formula = "Leesindex A" -> leesindex_a_mapping
      [] formula \in {"CLIB", "CLIB stop"} -> clib_mapping
      [] formula \in {"CILT", "CILT stop"} -> cilt_mapping

\* The keys of the mapping that hold the score, in the order of the dict.
KeysWith(s, mapping) ==
    {k \in 1..Len(mapping) : mapping[k].lo <= s /\ s < mapping[k].hi}

Min(S) == CHOOSE m \in S : \A n \in S : m <= n

\* A formula method of a constructed ReadabilityEstimation returns.
Scored(formula, v) ==
    /\ score' = [formula |-> formula, value |-> IntOrZero(v)]
    /\ pc' = "scored"
    /\ UNCHANGED <<dictionary, estimator, caller, stack, original,
                   test_accuracy, textstat_count, unknown_count, result,
                   trail, estimated, text, cleaned, recleaned, tokens, idx,
                   syllable_count, lines, threads, history,
                   dataset, read_est, grade>>

flesch_douma ==
    /\ pc = "constructed"
    /\ Scored("Flesch-Douma", FleschDoumaValue(read_est))

leesindex_a ==
    /\ pc = "constructed"
    /\ Scored("Leesindex A", LeesindexAValue(read_est))

\* estimate_texts calls clib() and clib(freq_no_stop=False) and writes the
\* scores to the columns CLIB-score and CLIB_stop-score, which
\* scores_to_grades maps as "CLIB" and "CLIB stop"; likewise for cilt.
clib ==
    /\ pc = "constructed"
    /\ \E freq_no_stop \in BOOLEAN :
          Scored(IF freq_no_stop THEN "CLIB" ELSE "CLIB stop",
                 ClibValue(read_est, freq_no_stop))

cilt ==
    /\ pc = "constructed"
    /\ \E freq_no_stop \in BOOLEAN :
          Scored(IF freq_no_stop THEN "CILT" ELSE "CILT stop",
                 CiltValue(read_est, freq_no_stop))

\* map_score_to_grade: the first key that holds the score gives the
\* grades; without one the exception is raised.
map_score_to_grade ==
    /\ pc = "scored"
    /\ LET keys == KeysWith(score.value, MappingOf(score.formula))
       IN  IF keys # {}
           THEN /\ grade' = MappingOf(score.formula)[Min(keys)].grades
                /\ pc' = "graded"
           ELSE /\ pc' = "invalid_score"
                /\ UNCHANGED grade
    /\ UNCHANGED <<dictionary, estimator, caller, stack, original,
                   test_accuracy, textstat_count, unknown_count, result,
                   trail, estimated, text, cleaned, recleaned, tokens, idx,
                   syllable_count, lines, threads, history,
                   dataset, read_est, score>>

InitScore ==
    /\ dictionary = MasterLexicon
    /\ estimator = "groups"
    /\ pc = "constructed"
    /\ caller = "none"
    /\ stack = <<>>
    /\ original = <<>>
    /\ test_accuracy = FALSE
    /\ textstat_count = 0
    /\ unknown_count = 0
    /\ result = 0
    /\ trail = <<>>
    /\ estimated = <<>>
    /\ text = <<>>
    /\ cleaned = <<>>
    /\ recleaned = <<>>
    /\ tokens = <<>>
    /\ idx = 0
    /\ syllable_count = 0
    /\ lines = <<>>
    /\ threads = <<>>
    /\ history = <<>>
    /\ dataset = {}
    /\ read_est \in Estimations
    /\ score = <<>>
    /\ grade = <<>>

NextScore ==
    \/ flesch_douma
    \/ leesindex_a
    \/ clib
    \/ cilt
    \/ map_score_to_grade

ScoreSpec == InitScore /\ [][NextScore]_vars

\* The real value of the formula that gave the score, and whether computing
\* it divides by zero.
ValueOf(formula, r) ==
    CASE formula = "Flesch-Douma" -> FleschDoumaValue(r)
      [] formula = "Leesindex A" -> LeesindexAValue(r)
      [] formula = "CLIB" -> ClibValue(r, TRUE)
      [] formula = "CLIB stop" -> ClibValue(r, FALSE)
      [] formula = "CILT" -> CiltValue(r, TRUE)
      [] formula = "CILT stop" -> CiltValue(r, FALSE)

\* The largest integer that is at most v[1] / v[2].
Floor(v) ==
    CHOOSE n \in -((Max({v[1], 0 - v[1]}) \div v[2]) + 1)
                   ..(Max({v[1], 0 - v[1]}) \div v[2]) :
        /\ n * v[2] <= v[1]
        /\ v[1] < (n + 1) * v[2]

(***************************************************************************)
(* C22.  Each readability formula returns its real-valued result rounded    *)
(* down to the nearest integer (floor), for negative values as well as for  *)
(* positive ones.                                                           *)
(***************************************************************************)
C22_RoundedDown ==
    (/\ pc = "scored"
     /\ read_est.sentence_count >= 1
     /\ read_est.word_count >= 1)
    => score.value = Floor(ValueOf(score.formula, read_est))

\* Split indices 2 <= k <= len - 2 that cut the word into two lexicon keys.
TwoWayCuts(w) ==
    {k \in 2..(Len(w) - 2) : /\ Prefix(w, k) \in DOMAIN dictionary
                             /\ Suffix(w, k) \in DOMAIN dictionary}

(***************************************************************************)
(* C23.  Two-way split completeness: an invocation whose candidate is not a *)
(* key but has a split index k, 2 <= k <= len - 2, with both parts keys,    *)
(* returns lexicon[candidate[0:k*]] + lexicon[candidate[k*:]] for the       *)
(* largest such k*, makes no recursive call and does not call the           *)
(* estimator.                                                               *)
(***************************************************************************)
C23_TwoWaySplit ==
    \A k \in 1..Len(trail) :
        LET w == trail[k].word
        IN  (w \notin DOMAIN dictionary /\ TwoWayCuts(w) # {})
            => /\ trail[k].branch \in {"both", "refined"}
               /\ k = Len(trail)
               /\ pc \in {"ret", "done"}
               /\ estimated = <<>>
               /\ (pc = "ret" /\ Len(stack) = k)
                  => result = dictionary[Prefix(w, Max(TwoWayCuts(w)))]
                              + dictionary[Suffix(w, Max(TwoWayCuts(w)))]

\* asees over {as: 1, ase: 2, es: 2, ees: 2} can be cut as as + ees and as
\* ase + es; the larger index gives 4.
C23_Witness ==
    /\ pc = "ret"
    /\ Len(stack) = 1
    /\ Len(trail) = 1
    /\ trail[1].word = <<"a","s","e","e","s">>
    /\ TwoWayCuts(trail[1].word) = {2, 3}
    /\ result = 4

\* w is o without some of its first characters, at least one.
ProperSuffix(w, o) ==
    /\ Len(w) < Len(o)
    /\ Suffix(o, Len(o) - Len(w)) = w

(***************************************************************************)
(* C24.  In a resolution started with candidate = original, every candidate *)
(* passed to a recursive call is a proper suffix of the original word (the  *)
(* s that the plural correction reattaches is the last letter of the head), *)
(* so it is never equal to the original: the connector-s check is enabled   *)
(* in every recursive call and disabled only at the top level.              *)
(***************************************************************************)
C24_ProperSuffixes ==
    (trail # <<>> /\ original = TopWord)
    => /\ \A k \in 2..Len(stack) :
             /\ ProperSuffix(stack[k].word, original)
             /\ stack[k].word # original
       /\ \A k \in 2..Len(trail) :
             /\ ProperSuffix(trail[k].word, original)
             /\ Unmatched(trail[k].word) => trail[k].branch = "strip"
       /\ \A k \in 1..Len(trail) :
             (trail[k].branch = "plural" /\ k < Len(stack))
             => /\ stack[k+1].word[1] = trail[k].word[HeadCut(trail[k].word)]
                /\ stack[k+1].word
                      = Suffix(trail[k].word, HeadCut(trail[k].word) - 1)
       /\ trail[1].branch # "strip"

\* skast and kast, the candidates of the recursive calls for huisskast over
\* {huis: 1, deur: 1}; the s of skast has been stripped.
C24_Witness ==
    /\ pc = "csw"
    /\ original = huis \o skast
    /\ TopWord = huis \o skast
    /\ Len(stack) = 3
    /\ stack[2].word = skast
    /\ stack[3].word = kast
    /\ trail[2].branch = "strip"
    /\ ProperSuffix(stack[3].word, original)

\* The lexicon count of the head that the k-th invocation matched before it
\* called recursively: the head at the first split index, or that head
\* without its last letter after a plural correction; a stripped s counts
\* for nothing.
MatchedHeadCount(k) ==
    LET w == trail[k].word
    IN  CASE trail[k].branch = "head" -> dictionary[Prefix(w, HeadCut(w))]
          [] trail[k].branch = "plural"
                -> dictionary[Prefix(w, HeadCut(w) - 1)]
          [] OTHER -> 0

RECURSIVE MatchedHeadCounts(_)
MatchedHeadCounts(k) ==
    IF k = 0 THEN 0 ELSE MatchedHeadCounts(k - 1) + MatchedHeadCount(k)

ZeroWordsScoreZero ==
    (read_est.word_count = 0 /\ pc # "constructed")
    => /\ score.value = 0
       /\ (score.formula = "Flesch-Douma" /\ pc # "scored")
          => (pc = "graded" /\ grade = <<13>>)
       /\ (score.formula = "Leesindex A" /\ pc # "scored")
          => (pc = "graded" /\ grade = <<13>>)
       /\ (score.formula \in {"CLIB", "CLIB stop"} /\ pc # "scored")
          => (pc = "graded" /\ grade = <<1>>)

(***************************************************************************)
(* C26.  For a text with zero words every readability formula returns the   *)
(* score 0 from its ZeroDivisionError handler, and map_score_to_grade maps  *)
(* that score to a grade list under the formula's own mapping instead of    *)
(* raising the 'Invalid/Unknown score' exception.                           *)
(***************************************************************************)
C26_ZeroWordsGraded ==
    (read_est.word_count = 0 /\ pc # "constructed")
    => /\ score.value = 0
       /\ pc # "invalid_score"
       /\ pc = "graded"
          => \E k \in KeysWith(0, MappingOf(score.formula)) :
                grade = MappingOf(score.formula)[k].grades

==========================================================================
